---- MODULE Spec2Model ----
(***************************************************************************)
(* Session state machine of coding_interface.py (Streamlit annotation     *)
(* tool): the session_state fields, the loaded coding table, and one      *)
(* action per button handler of main().  Each action is one script run in *)
(* which exactly one button was pressed; its guard is the conjunction of  *)
(* the conditions the script passes before it reaches that button.        *)
(***************************************************************************)
EXTENDS Integers, Sequences, FiniteSets, TLC

(* ---------------------------------------------------------------------- *)
(* Bounds of the model                                                    *)
(* ---------------------------------------------------------------------- *)
\* longest coding table; coding_ids of tables are 1..MaxItems
MaxItems == 3

(* ---------------------------------------------------------------------- *)
(* Values                                                                 *)
(* ---------------------------------------------------------------------- *)
\* Python None (locked_coder_name before the lock)
None == "<None>"
\* pandas NaN in a string column / in a numeric column
NaN == "<NaN>"
NaNIndex == -1
\* datetime.now().isoformat(): one abstract instant
Now == "now"

\* names a coder may type; "" is the empty text box
Names == {"alice", "bob"}
NameInputs == Names \cup {""}
NameSeq == <<"alice", "bob">>

\* line 366
categories == <<"strong", "weak", "moderate", "none">>
Categories == {categories[i] : i \in 1..Len(categories)}
\* the classification and notes a coder enters in a run of the model
\* (max_chars = 500 is not modelled: both notes fit)
SaveInputs == {<<categories[1], "">>, <<categories[Len(categories)], "n1">>}

\* lines 31-36
OUTPUT_COLUMNS ==
    <<"coding_id", "original_index", "coder_name", "classification",
      "claude_credit_channel", "claude_credit_channel_category",
      "quotation", "description", "variable", "stablespeaker", "ymd",
      "notes", "coded_at">>

\* the columns get_results_csv selects from coding_df (lines 70-72)
MergeColumns ==
    {"coding_id", "original_index", "quotation", "description",
     "variable", "stablespeaker", "ymd",
     "claude_credit_channel", "claude_credit_channel_category"}

\* line 99
required_cols == {"coding_id", "coder_name", "classification"}

(* ---------------------------------------------------------------------- *)
(* Helpers on sequences                                                   *)
(* ---------------------------------------------------------------------- *)
Range(s) == {s[i] : i \in 1..Len(s)}

\* df[df['coding_id'].isin(ids)]: the rows kept, in order
SelectRows(rows, ids) == SelectSeq(rows, LAMBDA r : r.coding_id \in ids)

RECURSIVE Flatten(_)
Flatten(ss) == IF ss = <<>> THEN <<>> ELSE Head(ss) \o Flatten(Tail(ss))

\* [c for c in s if c in keep]
FilterSeq(s, keep) == SelectSeq(s, LAMBDA c : c \in keep)

(* ---------------------------------------------------------------------- *)
(* Inputs: coding tables and resume files                                 *)
(* ---------------------------------------------------------------------- *)
\* A coding table (coding_df): its coding_id column, in row order, and its
\* column names.  Items carry a unique coding_id (spec, data model).
FullColumns == MergeColumns \cup {"explanation"}
Ascending(n) == [i \in 1..n |-> i]
Descending(n) == [i \in 1..n |-> n + 1 - i]
Table(ids) == [ids |-> ids, columns |-> FullColumns]
Tables ==
    {Table(Ascending(MaxItems)), Table(Ascending(MaxItems - 1)),
     Table(Descending(MaxItems))}

\* Tables that lack one column: pd.read_csv (lines 49, 57) accepts any CSV
LackedColumns == {"coding_id", "quotation", "description"}
LackingTables ==
    {[ids |-> Ascending(MaxItems), columns |-> FullColumns \ {c}] :
        c \in LackedColumns}
AllTables == Tables \cup LackingTables

\* A resume file as pd.read_csv returns it: column names and rows.  Row i of
\* a file has coding_id ids[i], a coder_name given by the file's pattern and
\* a classification and notes given by its position.  Unknown is a coding_id
\* of no table.
Unknown == MaxItems + 1
IdSeqs ==
    {<<>>, <<Unknown>>, <<1>>, <<1, Unknown>>, <<Unknown, MaxItems>>,
     <<1, 1>>, <<MaxItems, 1>>, <<Unknown, Unknown, 1>>, <<1, 1, Unknown>>,
     Ascending(MaxItems)}
\* "same": every row by the first name; "mixed": the rows by the second
\* and the first name in turn
CoderPatterns == {"same", "mixed"}
FileCoder(p, i) ==
    IF p = "same" THEN NameSeq[1] ELSE NameSeq[(i % 2) + 1]
FileClasses == <<"moderate", "maybe", "weak">>
FileClass(i) == FileClasses[((i - 1) % Len(FileClasses)) + 1]
FileNotes(i) == IF i % 2 = 1 THEN NaN ELSE "n2"
FileRows(ids, p) ==
    [i \in 1..Len(ids) |->
        [coding_id |-> ids[i], coder_name |-> FileCoder(p, i),
         classification |-> FileClass(i), notes |-> FileNotes(i),
         coded_at |-> "t0"]]
ExportedColumns == required_cols \cup {"notes", "coded_at"}
\* files with the columns of an exported file, and files with the three
\* required columns only
GoodFiles ==
    {[columns |-> ExportedColumns, rows |-> FileRows(ids, p)] :
        ids \in IdSeqs, p \in CoderPatterns}
    \cup {[columns |-> required_cols, rows |-> FileRows(ids, "same")] :
            ids \in {<<1>>, <<1, Unknown>>, Ascending(MaxItems)}}
\* files lacking one required column, and the empty file pd.read_csv rejects
BadFiles ==
    {[columns |-> ExportedColumns \ {c}, rows |-> FileRows(<<1>>, "same")] :
        c \in required_cols}
    \cup {[columns |-> {}, rows |-> <<>>]}
ResumeFiles == GoodFiles \cup BadFiles

(* ---------------------------------------------------------------------- *)
(* State                                                                  *)
(* ---------------------------------------------------------------------- *)
\* widget_version (lines 127-128, 279) only keys the widgets of the page
\* and is not part of the model.
VARIABLES
    current_index,      \* st.session_state.current_index
    results,            \* st.session_state.results: sequence of records
    coded_ids,          \* st.session_state.coded_ids
    locked_coder_name,  \* st.session_state.locked_coder_name
    coding_df           \* the table the data-source widgets currently yield

vars == <<current_index, results, coded_ids, locked_coder_name, coding_df>>
session == <<current_index, results, coded_ids, locked_coder_name>>

(* ---------------------------------------------------------------------- *)
(* Pure functions                                                         *)
(* ---------------------------------------------------------------------- *)
\* positions (1-based) of the rows of table df whose coding_id is id
MatchingRows(df, id) ==
    SelectSeq([i \in 1..Len(df.ids) |-> i], LAMBDA i : df.ids[i] = id)

\* results_df.merge(coding_df[[...]], on='coding_id', how='left'): the rows
\* one result record yields.  A left join keeps a record that matches no
\* row of the table, with NaN in the table's columns.  original_index
\* stands for the columns taken from the table: the matched row's position.
MergeInner(r, df) ==
    LET m == MatchingRows(df, r.coding_id)
    IN  [k \in 1..Len(m) |->
            [coding_id |-> r.coding_id, original_index |-> m[k] - 1,
             coder_name |-> r.coder_name, classification |-> r.classification,
             notes |-> r.notes, coded_at |-> r.coded_at]]
MergeLeft(r, df) ==
    LET m == MatchingRows(df, r.coding_id)
    IN  IF m = <<>>
        THEN <<[coding_id |-> r.coding_id, original_index |-> NaNIndex,
                coder_name |-> r.coder_name, classification |-> r.classification,
                notes |-> r.notes, coded_at |-> r.coded_at]>>
        ELSE [k \in 1..Len(m) |->
                [coding_id |-> r.coding_id, original_index |-> m[k] - 1,
                 coder_name |-> r.coder_name, classification |-> r.classification,
                 notes |-> r.notes, coded_at |-> r.coded_at]]

\* get_results_csv (lines 61-81).  ok = FALSE is the KeyError pandas
\* raises: pd.DataFrame([]) has no coding_id column to merge on, and
\* coding_df[[...]] needs every selected column.
ResultColumns == {"coding_id", "coder_name", "classification", "notes", "coded_at"}
ExportRaises(res, df) ==
    res = <<>> \/ ~(MergeColumns \subseteq df.columns)
MergedRows(res, df) == Flatten([i \in 1..Len(res) |-> MergeLeft(res[i], df)])
get_results_csv(res, df) ==
    IF ExportRaises(res, df)
    THEN [ok |-> FALSE, columns |-> <<>>, rows |-> <<>>]
    ELSE [ok |-> TRUE,
          columns |-> FilterSeq(OUTPUT_COLUMNS, ResultColumns \cup MergeColumns),
          rows |-> MergedRows(res, df)]

\* merged.to_csv(index=False) (line 81): every cell as text.  NaN is written
\* as the empty field, and so is the empty string.
CsvText(v) == IF v = NaN THEN "" ELSE v
CsvNumberText(n) == IF n = NaNIndex THEN "" ELSE ToString(n)
to_csv(export) ==
    [columns |-> export.columns,
     rows |-> [k \in 1..Len(export.rows) |->
        [coding_id |-> CsvNumberText(export.rows[k].coding_id),
         original_index |-> CsvNumberText(export.rows[k].original_index),
         coder_name |-> CsvText(export.rows[k].coder_name),
         classification |-> CsvText(export.rows[k].classification),
         notes |-> CsvText(export.rows[k].notes),
         coded_at |-> CsvText(export.rows[k].coded_at)]]]

\* pd.read_csv (line 248) of such a text: a field that is one of pandas'
\* NA markers is read as NaN, the decimal text of a number as the number,
\* any other field as the text.  The rows keep the columns the Load Session
\* handler reads.
NaValues == {"", "NA", "N/A", "NaN", "nan", "NULL", "null", "None", "n/a", "#N/A"}
CsvCell(text) == IF text \in NaValues THEN NaN ELSE text
CsvNumber(text) ==
    IF \E n \in 0..Unknown : ToString(n) = text
    THEN CHOOSE n \in 0..Unknown : ToString(n) = text
    ELSE CsvCell(text)
read_csv(csv) ==
    [columns |-> Range(csv.columns),
     rows |-> [k \in 1..Len(csv.rows) |->
        [coding_id |-> CsvNumber(csv.rows[k].coding_id),
         coder_name |-> CsvCell(csv.rows[k].coder_name),
         classification |-> CsvCell(csv.rows[k].classification),
         notes |-> CsvCell(csv.rows[k].notes),
         coded_at |-> CsvCell(csv.rows[k].coded_at)]]]

\* get_previous_coding (lines 84-89): the first record with this coding_id
get_previous_coding(coding_id, res) ==
    IF \E i \in 1..Len(res) : res[i].coding_id = coding_id
    THEN res[CHOOSE i \in 1..Len(res) :
                /\ res[i].coding_id = coding_id
                /\ \A j \in 1..(i - 1) : res[j].coding_id # coding_id]
    ELSE None

\* validate_resume_csv (lines 92-116)
validate_without_empty_check(resume_df, df) ==
    IF ~(required_cols \subseteq resume_df.columns)
    THEN [is_valid |-> FALSE, message |-> "Missing required columns",
          count |-> 0, matching_ids |-> {}]
    ELSE LET resume_ids == {resume_df.rows[i].coding_id : i \in 1..Len(resume_df.rows)}
             coding_ids == Range(df.ids)
         IN  [is_valid |-> TRUE, message |-> "Warning",
              count |-> Cardinality(resume_ids \ coding_ids),
              matching_ids |-> resume_ids \cap coding_ids]
validate_resume_csv(resume_df, df) ==
    IF ~(required_cols \subseteq resume_df.columns)
    THEN [is_valid |-> FALSE, message |-> "Missing required columns",
          count |-> 0, matching_ids |-> {}]
    ELSE LET resume_ids == {resume_df.rows[i].coding_id : i \in 1..Len(resume_df.rows)}
             coding_ids == Range(df.ids)
             matching_ids == resume_ids \cap coding_ids
             unmatched_ids == resume_ids \ coding_ids
         IN  IF Cardinality(matching_ids) = 0
             THEN [is_valid |-> FALSE, message |-> "No coding_ids match",
                   count |-> 0, matching_ids |-> {}]
             ELSE IF Cardinality(unmatched_ids) > 0
             THEN [is_valid |-> TRUE, message |-> "Warning",
                   count |-> Cardinality(unmatched_ids),
                   matching_ids |-> matching_ids]
             ELSE [is_valid |-> TRUE, message |-> "Successfully validated",
                   count |-> Cardinality(matching_ids),
                   matching_ids |-> matching_ids]

\* lines 146-159: the name the run works with, given the text typed
coder_name(typed) ==
    IF locked_coder_name # None THEN locked_coder_name ELSE typed


(* ---------------------------------------------------------------------- *)
(* Initial state and script guards                                        *)
(* ---------------------------------------------------------------------- *)
\* initialize_session_state (lines 119-130) and the first table loaded
Init ==
    /\ current_index = 0
    /\ results = <<>>
    /\ coded_ids = {}
    /\ locked_coder_name = None
    /\ coding_df \in Tables

total_arguments == Len(coding_df.ids)

\* lines 161-163: the script stops unless a name is locked or typed
NameGiven(typed) == coder_name(typed) # ""
\* some text in the name box lets the run pass line 163
CanRun == {typed \in NameInputs : NameGiven(typed)} # {}

\* lines 218-229: with results present the sidebar builds the download, and
\* a KeyError there ends the run before any later widget is drawn
SidebarRenders ==
    results # <<>> => ~ExportRaises(results, coding_df)

\* lines 299-302: the coding area is drawn for a cursor inside the table
\* and reads the row's coding_id and quotation
CodingAreaRenders ==
    /\ SidebarRenders
    /\ current_index < total_arguments
    /\ {"coding_id", "quotation"} \subseteq coding_df.columns

\* line 301
CurrentCodingId == coding_df.ids[current_index + 1]

(* ---------------------------------------------------------------------- *)
(* Actions                                                                *)
(* ---------------------------------------------------------------------- *)
\* lines 165-197: the data-source widgets yield another table; no field of
\* session_state is touched
LoadData(df) ==
    /\ CanRun
    /\ df # coding_df
    /\ coding_df' = df
    /\ UNCHANGED session

\* lines 183, 188, 194: what the data-source widgets display for table df.
\* The only st.error is for a default file that does not exist; a table
\* that was read is announced with st.success whatever its columns.
LoadDataMessages(df) == [error |-> "", loaded |-> Len(df.ids)]

\* lines 259-269: the records built from the rows of the resume file whose
\* coding_id matched
ImportedRecord(resume_df, row) ==
    [coding_id |-> row.coding_id,
     coder_name |-> row.coder_name,
     classification |-> row.classification,
     notes |-> IF "notes" \in resume_df.columns THEN row.notes ELSE "",
     coded_at |-> IF "coded_at" \in resume_df.columns THEN row.coded_at ELSE Now]
ValidResults(resume_df, matching_ids) ==
    LET valid_resume == SelectRows(resume_df.rows, matching_ids)
    IN  [i \in 1..Len(valid_resume) |-> ImportedRecord(resume_df, valid_resume[i])]

\* lines 281-290: the first row whose coding_id is not coded, else the last
LastUncoded(df, coded) ==
    IF \E idx \in 0..(Len(df.ids) - 1) : df.ids[idx + 1] \notin coded
    THEN CHOOSE idx \in 0..(Len(df.ids) - 1) :
            /\ df.ids[idx + 1] \notin coded
            /\ \A j \in (idx + 1)..(Len(df.ids) - 1) : df.ids[j + 1] \in coded
    ELSE Len(df.ids) - 1
FirstUncoded(df, coded) ==
    IF \E idx \in 0..(Len(df.ids) - 1) : df.ids[idx + 1] \notin coded
    THEN CHOOSE idx \in 0..(Len(df.ids) - 1) :
            /\ df.ids[idx + 1] \notin coded
            /\ \A j \in 0..(idx - 1) : df.ids[j + 1] \in coded
    ELSE Len(df.ids) - 1

\* line 271: the imported records replace the session's records
MergeIntoResults(old, valid_results) == old \o valid_results
ReplaceResults(old, valid_results) == valid_results

\* line 276
KeepLockIfSet(valid_results) ==
    IF locked_coder_name # None \/ Len(valid_results) = 0
    THEN locked_coder_name
    ELSE valid_results[1].coder_name
LockedAfterImport(valid_results) ==
    IF Len(valid_results) > 0 THEN valid_results[1].coder_name
    ELSE locked_coder_name

\* lines 248-251: pd.read_csv raises on an empty file, and
\* validate_resume_csv raises when the table has no coding_id column
\* (line 105); line 295 catches both
LoadRaises(resume_df, df) ==
    resume_df.columns = {} \/ "coding_id" \notin df.columns

\* the fields of session_state
Session ==
    [current_index |-> current_index, results |-> results,
     coded_ids |-> coded_ids, locked_coder_name |-> locked_coder_name]

\* lines 247-296: the fields of session_state when the Load Session handler
\* has run on resume_df.  A run that raises (line 295) or that finds the
\* file invalid (line 253) assigns nothing.
LoadSessionOutcome(resume_df) ==
    IF LoadRaises(resume_df, coding_df)
    THEN Session
    ELSE LET v == validate_resume_csv(resume_df, coding_df)
             valid_results == ValidResults(resume_df, v.matching_ids)
             new_coded == {valid_results[i].coding_id : i \in 1..Len(valid_results)}
         IN  IF ~v.is_valid
             THEN Session
             ELSE [current_index |-> FirstUncoded(coding_df, new_coded),
                   results |-> ReplaceResults(results, valid_results),
                   coded_ids |-> new_coded,
                   locked_coder_name |-> LockedAfterImport(valid_results)]

\* lines 254, 257, 292, 296: what the handler displays.  error is the
\* st.error text ("": none), warning whether st.warning is shown and
\* unmatched the number its text gives, loaded the number st.success gives.
LoadSessionMessages(resume_df) ==
    IF LoadRaises(resume_df, coding_df)
    THEN [error |-> "Error loading session", warning |-> FALSE,
          unmatched |-> 0, loaded |-> 0]
    ELSE LET v == validate_resume_csv(resume_df, coding_df)
         IN  IF ~v.is_valid
             THEN [error |-> v.message, warning |-> FALSE,
                   unmatched |-> 0, loaded |-> 0]
             ELSE [error |-> "",
                   warning |-> v.message = "Warning",
                   unmatched |-> IF v.message = "Warning" THEN v.count ELSE 0,
                   loaded |-> Len(ValidResults(resume_df, v.matching_ids))]

\* lines 245-296: the Load Session button
LoadSession(resume_df) ==
    /\ CanRun
    /\ SidebarRenders
    /\ LET after == LoadSessionOutcome(resume_df)
       IN  /\ current_index' = after.current_index
           /\ results' = after.results
           /\ coded_ids' = after.coded_ids
           /\ locked_coder_name' = after.locked_coder_name
    /\ UNCHANGED coding_df

\* line 512: disabled=(current_index == 0)
PreviousNeverDisabled == FALSE
PreviousDisabled == current_index = 0

\* lines 511-514: the Previous button
Previous ==
    /\ CanRun
    /\ CodingAreaRenders
    /\ ~PreviousDisabled
    /\ current_index' = current_index - 1
    /\ UNCHANGED <<results, coded_ids, locked_coder_name, coding_df>>

\* lines 530-540: update the first record with this coding_id, or append
AlwaysAppend(res, result) == Append(res, result)
MoveToEnd(res, result) ==
    Append(SelectSeq(res, LAMBDA r : r.coding_id # result.coding_id), result)
UpdateOrAppend(res, result) ==
    IF \E i \in 1..Len(res) : res[i].coding_id = result.coding_id
    THEN LET existing_idx ==
                CHOOSE i \in 1..Len(res) :
                    /\ res[i].coding_id = result.coding_id
                    /\ \A j \in 1..(i - 1) : res[j].coding_id # result.coding_id
         IN  [res EXCEPT ![existing_idx] = result]
    ELSE Append(res, result)

\* lines 519-520: the name locked when Save has run with typed in the box
LockToTyped(typed) == typed
LockOnSave(typed) ==
    IF locked_coder_name = None THEN coder_name(typed) ELSE locked_coder_name

\* lines 546-548
AlwaysAdvance(idx, total) == idx + 1
AfterSave(idx, total) == IF idx < total - 1 THEN idx + 1 ELSE idx

\* line 542: coded_ids.add(coding_id)
CodedUnchanged(coded, coding_id) == coded
CodedAfterSave(coded, coding_id) == coded \cup {coding_id}

\* lines 516-549: the Save & Continue button
Save(typed, classification, notes) ==
    /\ NameGiven(typed)
    /\ CodingAreaRenders
    /\ LET locked == LockOnSave(typed)
           result == [coding_id |-> CurrentCodingId,
                      coder_name |-> locked,
                      classification |-> classification,
                      notes |-> notes,
                      coded_at |-> Now]
       IN  /\ locked_coder_name' = locked
           /\ results' = UpdateOrAppend(results, result)
           /\ coded_ids' = CodedAfterSave(coded_ids, CurrentCodingId)
    /\ current_index' = AfterSave(current_index, total_arguments)
    /\ UNCHANGED coding_df

\* line 552: disabled=(current_index == total_arguments - 1)
SkipDisabled == current_index = total_arguments - 1

\* lines 551-554: the Skip button
Skip ==
    /\ CanRun
    /\ CodingAreaRenders
    /\ ~SkipDisabled
    /\ current_index' = current_index + 1
    /\ UNCHANGED <<results, coded_ids, locked_coder_name, coding_df>>

\* lines 556-567: the Go button; the number input holds 1..total_arguments
Go(jump_to) ==
    /\ CanRun
    /\ CodingAreaRenders
    /\ jump_to \in 1..total_arguments
    /\ current_index' = jump_to - 1
    /\ UNCHANGED <<results, coded_ids, locked_coder_name, coding_df>>

\* lines 569-588: the Return to Start button of the "all reviewed" page,
\* drawn after the page's download button has built its CSV
RestartSession ==
    /\ CanRun
    /\ SidebarRenders
    /\ ~(current_index < total_arguments)
    /\ ~ExportRaises(results, coding_df)
    /\ current_index' = 0
    /\ results' = <<>>
    /\ coded_ids' = {}
    /\ UNCHANGED <<locked_coder_name, coding_df>>
ReturnToStart ==
    /\ CanRun
    /\ SidebarRenders
    /\ ~(current_index < total_arguments)
    /\ ~ExportRaises(results, coding_df)
    /\ current_index' = 0
    /\ UNCHANGED <<results, coded_ids, locked_coder_name, coding_df>>

\* lines 299, 511-512: the Previous button is drawn and enabled
PreviousAvailable == CanRun /\ CodingAreaRenders /\ ~PreviousDisabled

\* lines 225-231, 578-584: a download button is drawn with the CSV built
DownloadAvailable == CanRun /\ ~ExportRaises(results, coding_df)

(* ---------------------------------------------------------------------- *)
(* Specifications                                                         *)
(* ---------------------------------------------------------------------- *)
Next ==
    \/ \E df \in Tables : LoadData(df)
    \/ \E f \in ResumeFiles : LoadSession(f)
    \/ Previous
    \/ \E typed \in NameInputs, in \in SaveInputs : Save(typed, in[1], in[2])
    \/ Skip
    \/ \E j \in 1..MaxItems : Go(j)
    \/ ReturnToStart

Spec == Init /\ [][Next]_vars

\* sessions in which Load Session is never pressed
NextNoImport ==
    \/ \E df \in Tables : LoadData(df)
    \/ Previous
    \/ \E typed \in NameInputs, in \in SaveInputs : Save(typed, in[1], in[2])
    \/ Skip
    \/ \E j \in 1..MaxItems : Go(j)
    \/ ReturnToStart

SpecNoImport == Init /\ [][NextNoImport]_vars

\* sessions in which the data source may also be a table lacking a column
NextColumns ==
    \/ \E df \in AllTables : LoadData(df)
    \/ \E f \in ResumeFiles : LoadSession(f)
    \/ Previous
    \/ \E typed \in NameInputs, in \in SaveInputs : Save(typed, in[1], in[2])
    \/ Skip
    \/ \E j \in 1..MaxItems : Go(j)
    \/ ReturnToStart

SpecColumns == Init /\ [][NextColumns]_vars

(* ---------------------------------------------------------------------- *)
(* Properties                                                             *)
(* ---------------------------------------------------------------------- *)
Export == get_results_csv(results, coding_df)
ExportAfter == get_results_csv(results', coding_df')
\* the rows of an export that carry coding_id id, and the other rows
AllIds == 1..Unknown
RowsFor(rows, id) == SelectRows(rows, {id})
RowsNotFor(rows, id) == SelectRows(rows, AllIds \ {id})
\* what a row says about the labelling: item, classification, notes
Labelled(rows) ==
    [k \in 1..Len(rows) |-> <<rows[k].coding_id, rows[k].classification, rows[k].notes>>]

\* C1: in sessions of Saves, navigation and table loads, a Save of the item
\* under the cursor leaves exactly one export row for its coding_id, carrying
\* the classification and notes just entered, and changes the rows of no
\* other coding_id; a step that is no Save changes the labelling of no row.
C1_SaveOverwrites ==
    [][ IF results' = results
        THEN results # <<>> => Labelled(ExportAfter.rows) = Labelled(Export.rows)
        ELSE \A in \in SaveInputs :
                (\E typed \in NameInputs : Save(typed, in[1], in[2])) =>
                    /\ ExportAfter.ok
                    /\ Labelled(RowsFor(ExportAfter.rows, CurrentCodingId))
                          = << <<CurrentCodingId, in[1], in[2]>> >>
                    /\ Labelled(RowsNotFor(ExportAfter.rows, CurrentCodingId))
                          = Labelled(RowsNotFor(Export.rows, CurrentCodingId))
      ]_vars

\* C1 witness: every item of the table has a record, and the cursor stands
\* on an item that already has one, so that the next Save repeats a Save.
C1_Witness ==
    /\ CodingAreaRenders
    /\ CurrentCodingId \in coded_ids
    /\ Len(results) = MaxItems
    /\ Export.ok
    /\ \E i \in 1..Len(results) :
          /\ results[i].coding_id = CurrentCodingId
          /\ results[i].classification = "none" /\ results[i].notes = "n1"

(* what the properties below say about a resume file and the loaded table, *)
(* stated without validate_resume_csv                                      *)
TableIds == Range(coding_df.ids)
FileIdSet(f) == {f.rows[i].coding_id : i \in 1..Len(f.rows)}
Unreadable(f) == f.columns = {}
LacksRequired(f) == \E c \in required_cols : c \notin f.columns
NoOverlap(f) == FileIdSet(f) \cap TableIds = {}
Accepted(f) == ~LacksRequired(f) /\ ~NoOverlap(f)
\* the positions of the rows of f whose coding_id is in the loaded table
AcceptedPositions(f) == {k \in 1..Len(f.rows) : f.rows[k].coding_id \in TableIds}
\* a record no row of a resume file yields: one that Save wrote
WrittenBySave(r) ==
    \A f \in GoodFiles : \A k \in 1..Len(f.rows) : r # ImportedRecord(f, f.rows[k])

\* C2: once a Save or an import has happened, every record carries the
\* locked coder name.
C2_RecordsCarryLockedName ==
    results # <<>> =>
        \A i \in 1..Len(results) : results[i].coder_name = locked_coder_name

\* C3 as claimed: the export has as many rows as there are records whose
\* coding_id is in the loaded table.
C3_RowsOnlyForLoadedIds ==
    Len(Export.rows) =
        Cardinality({i \in 1..Len(results) : results[i].coding_id \in TableIds})

\* C3 amended: with at least one record, the export has exactly one row per
\* record, in the order of the records; the row of a record whose coding_id
\* is not in the loaded table is kept, with NaN in the table's columns.
C3_OneRowPerRecord ==
    results # <<>> =>
        /\ Export.ok
        /\ Len(Export.rows) = Len(results)
        /\ \A i \in 1..Len(results) :
              /\ Export.rows[i].coding_id = results[i].coding_id
              /\ Export.rows[i].classification = results[i].classification
              /\ (results[i].coding_id \notin TableIds
                    <=> Export.rows[i].original_index = NaNIndex)

\* C3 witness: a record whose coding_id is not in the loaded table, beside
\* one whose coding_id is.
C3_Witness ==
    /\ \E i \in 1..Len(results) : results[i].coding_id \notin TableIds
    /\ \E i \in 1..Len(results) : results[i].coding_id \in TableIds

\* C4: whenever Load Session can be pressed, a run on a resume file that
\* lacks a required column reports the missing columns, a run on one that
\* shares no coding_id with the loaded table reports that nothing matches,
\* and either run (as one on an unreadable file) leaves the cursor, the
\* records, the coded ids and the locked name as they were.
LoadSessionRuns == CanRun /\ SidebarRenders
C4_FailedImportKeepsState ==
    LoadSessionRuns =>
        \A f \in ResumeFiles :
            /\ (~Unreadable(f) /\ LacksRequired(f)) =>
                  LoadSessionMessages(f).error = "Missing required columns"
            /\ (~LacksRequired(f) /\ NoOverlap(f)) =>
                  LoadSessionMessages(f).error = "No coding_ids match"
            /\ (Unreadable(f) \/ LacksRequired(f) \/ NoOverlap(f)) =>
                  LoadSessionOutcome(f) = Session

\* C4 witness: a session with records, a locked name and a moved cursor, for
\* which the model holds a resume file that matches no row of the table.
C4_Witness ==
    /\ results # <<>>
    /\ locked_coder_name # None
    /\ current_index > 0
    /\ \E f \in ResumeFiles : ~LacksRequired(f) /\ f.rows # <<>> /\ NoOverlap(f)

\* C5: a Load Session run that accepts a file holding also coding_ids
\* unknown to the table keeps as many records as there are coding_ids common
\* to file and table, and its warning gives the number of rows it rejected.
C5_PartialOverlapCounts ==
    [][ \A f \in ResumeFiles :
            (Accepted(f) /\ FileIdSet(f) \ TableIds # {} /\ LoadSession(f)) =>
                /\ Len(results') = Cardinality(FileIdSet(f) \cap TableIds)
                /\ LoadSessionMessages(f).loaded = Cardinality(FileIdSet(f) \cap TableIds)
                /\ LoadSessionMessages(f).warning
                /\ LoadSessionMessages(f).unmatched
                      = Len(f.rows) - Cardinality(AcceptedPositions(f))
      ]_vars

\* C6: a Previous or a Skip step moves the cursor by one and leaves it
\* inside 0..total_arguments-1; hence none leaves index 0 downwards or the
\* last index upwards.
C6_CursorStaysInTable ==
    [][ /\ Previous => /\ current_index' = current_index - 1
                       /\ current_index' \in 0..(total_arguments - 1)
        /\ Skip => /\ current_index' = current_index + 1
                   /\ current_index' \in 0..(total_arguments - 1)
      ]_vars

\* C6 witness: the cursor on the last row of a table of several rows with
\* no record made, which only navigation reaches.
C6_Witness ==
    /\ results = <<>>
    /\ total_arguments > 1
    /\ current_index = total_arguments - 1

\* C7 as claimed: once a record written by Save is in the session, no step
\* changes the locked coder name.
C7_LockedNameNeverChanges ==
    [][ (\E i \in 1..Len(results) : WrittenBySave(results[i]))
            => locked_coder_name' = locked_coder_name ]_vars

\* C7 amended: once a name is locked, the only step that changes it is an
\* accepted Load Session, which locks the coder_name of the first record it
\* accepted; Save, navigation and loading another table leave it alone.
C7_OnlyImportRelocks ==
    [][ (locked_coder_name # None /\ locked_coder_name' # locked_coder_name) =>
            \E f \in ResumeFiles :
                /\ Accepted(f)
                /\ LoadSession(f)
                /\ \E k \in AcceptedPositions(f) :
                      /\ \A j \in AcceptedPositions(f) : k <= j
                      /\ locked_coder_name' = f.rows[k].coder_name
      ]_vars

\* C7 witness: a record written by Save in a session whose table has since
\* been replaced by one that lacks the record's coding_id.
C7_Witness ==
    /\ locked_coder_name # None
    /\ \E i \in 1..Len(results) :
          WrittenBySave(results[i]) /\ results[i].coding_id \notin TableIds

\* C8: without Load Session, a Save made while no name is locked locks the
\* name typed, a Save made later keeps the locked name whatever is typed,
\* and the record a Save writes carries the locked name; so every record of
\* the session carries it.
C8_FirstSaveLocks ==
    [][ /\ \A typed \in NameInputs, in \in SaveInputs :
            Save(typed, in[1], in[2]) =>
                /\ locked_coder_name = None => locked_coder_name' = typed
                /\ locked_coder_name # None => locked_coder_name' = locked_coder_name
                /\ get_previous_coding(CurrentCodingId, results').coder_name
                      = locked_coder_name'
        /\ \A i \in 1..Len(results') : results'[i].coder_name = locked_coder_name'
      ]_vars

\* C8 witness: records of several Saves under one locked name.
C8_Witness ==
    /\ locked_coder_name = "alice"
    /\ Len(results) = MaxItems
    /\ \A i \in 1..Len(results) : results[i].coder_name = "alice"

\* C9: whenever Load Session can be pressed, a run that accepts a file
\* leaves as records exactly the rows of the file whose coding_id is in the
\* loaded table, in file order, and as coded ids exactly their coding_ids; a
\* record of before is there afterwards only if the file yields it.
C9_ImportReplaces ==
    LoadSessionRuns =>
        \A f \in ResumeFiles :
            Accepted(f) =>
                LET after == LoadSessionOutcome(f)
                IN  /\ Len(after.results) = Cardinality(AcceptedPositions(f))
                    /\ \A i \in 1..Len(after.results) :
                          \E k \in AcceptedPositions(f) :
                              /\ Cardinality({j \in AcceptedPositions(f) : j <= k}) = i
                              /\ after.results[i].coding_id = f.rows[k].coding_id
                              /\ after.results[i].coder_name = f.rows[k].coder_name
                              /\ after.results[i].classification = f.rows[k].classification
                    /\ after.coded_ids = FileIdSet(f) \cap TableIds
                    /\ \A i \in 1..Len(results) :
                          results[i] \in Range(after.results) =>
                              \E k \in AcceptedPositions(f) :
                                  results[i] = ImportedRecord(f, f.rows[k])

\* C9 witness: a session whose coded ids and records are those of a resume
\* file, none written by Save, with a row of the table left uncoded.
C9_Witness ==
    /\ Len(results) > 1
    /\ \A i \in 1..Len(results) : ~WrittenBySave(results[i])
    /\ coded_ids = {results[i].coding_id : i \in 1..Len(results)}
    /\ TableIds \ coded_ids # {}

\* C10: whenever Load Session can be pressed, a run that accepts a file
\* leaves the cursor on the first row of the table whose coding_id is not
\* among the new coded ids, and on the last row when every row is coded,
\* wherever the cursor was.
C10_ImportRepositions ==
    LoadSessionRuns =>
        \A f \in ResumeFiles :
            Accepted(f) =>
                LET after == LoadSessionOutcome(f)
                    uncoded == {p \in 0..(total_arguments - 1) :
                                    coding_df.ids[p + 1] \notin after.coded_ids}
                IN  IF uncoded # {}
                    THEN /\ after.current_index \in uncoded
                         /\ \A q \in uncoded : after.current_index <= q
                    ELSE after.current_index = total_arguments - 1

\* C10 witness: imported records only, the first rows of the table coded and
\* the cursor on the first uncoded row, which is not the first row.
C10_Witness ==
    /\ results # <<>>
    /\ \A i \in 1..Len(results) : ~WrittenBySave(results[i])
    /\ current_index > 0
    /\ current_index < total_arguments
    /\ coding_df.ids[current_index + 1] \notin coded_ids
    /\ \A j \in 0..(current_index - 1) : coding_df.ids[j + 1] \in coded_ids

\* C11: whenever Load Session can be pressed, a run that accepts a file
\* leaves as locked name the coder_name of the first row of the file whose
\* coding_id is in the loaded table, whatever name was locked before and
\* whatever is typed in the name box.
C11_ImportLocksFirstAccepted ==
    LoadSessionRuns =>
        \A f \in ResumeFiles :
            Accepted(f) =>
                \E k \in AcceptedPositions(f) :
                    /\ \A j \in AcceptedPositions(f) : k <= j
                    /\ LoadSessionOutcome(f).locked_coder_name = f.rows[k].coder_name

\* C11 witness: imported records only, the first by the second name and a
\* later one by the first name, and the second name locked.
C11_Witness ==
    /\ Len(results) > 1
    /\ \A i \in 1..Len(results) : ~WrittenBySave(results[i])
    /\ results[1].coder_name = NameSeq[2]
    /\ \E i \in 2..Len(results) : results[i].coder_name = NameSeq[1]
    /\ locked_coder_name = NameSeq[2]

\* C12: a Save of an item that has a record replaces the (first) record of
\* that coding_id where it stands and leaves every other position as it
\* was; a Save of an item without a record appends one record at the end;
\* either way the coding_id is among the coded ids afterwards.
C12_ReplaceInPlaceOrAppend ==
    [][ (\E typed \in NameInputs, in \in SaveInputs : Save(typed, in[1], in[2])) =>
            /\ CurrentCodingId \in coded_ids'
            /\ IF \E i \in 1..Len(results) : results[i].coding_id = CurrentCodingId
               THEN /\ Len(results') = Len(results)
                    /\ \E p \in 1..Len(results) :
                          /\ results[p].coding_id = CurrentCodingId
                          /\ results'[p].coding_id = CurrentCodingId
                          /\ results'[p].coded_at = Now
                          /\ \A j \in 1..Len(results) :
                                j # p => results'[j] = results[j]
               ELSE /\ Len(results') = Len(results) + 1
                    /\ results'[Len(results')].coding_id = CurrentCodingId
                    /\ \A j \in 1..Len(results) : results'[j] = results[j]
      ]_vars

\* C12 witness: a record written by Save standing between two imported
\* records, where only a replacement in place can have put it.
C12_Witness ==
    /\ Len(results) = MaxItems
    /\ ~WrittenBySave(results[1])
    /\ WrittenBySave(results[2])
    /\ ~WrittenBySave(results[MaxItems])

\* C13: a Save made with the cursor at i leaves the cursor at i + 1 when
\* i < total_arguments - 1 and at i when i is the last index; the cursor is
\* never beyond the last row after a Save.
C13_SaveAdvancesWithinTable ==
    [][ (\E typed \in NameInputs, in \in SaveInputs : Save(typed, in[1], in[2])) =>
            /\ current_index < total_arguments - 1 => current_index' = current_index + 1
            /\ current_index = total_arguments - 1 => current_index' = current_index
            /\ current_index' <= total_arguments - 1
      ]_vars

\* C13 witness: the cursor on the last row of a table of several rows, that
\* row holding a record written by Save.
C13_Witness ==
    /\ total_arguments > 1
    /\ current_index = total_arguments - 1
    /\ \E i \in 1..Len(results) :
          results[i].coding_id = CurrentCodingId /\ WrittenBySave(results[i])

\* C14: every record's coding_id is the coding_id of a row of the loaded
\* table.
C14_RecordsReferenceLoadedItems ==
    \A i \in 1..Len(results) : results[i].coding_id \in TableIds

\* C15: no two records carry the same coding_id.
C15_OneRecordPerCodingId ==
    \A i, j \in 1..Len(results) :
        results[i].coding_id = results[j].coding_id => i = j

\* C16: every record's classification is one of the four categories.
C16_ClassificationInCategories ==
    \A i \in 1..Len(results) : results[i].classification \in Categories

\* C17: whenever the cursor is beyond the last index of the loaded table,
\* the Previous button (cursor - 1) and a download of the results are both
\* available.
C17_RetreatAndExportBeyondLast ==
    current_index >= total_arguments =>
        PreviousAvailable /\ DownloadAvailable

\* C18: selecting a table that lacks the coding_id or the quotation column
\* displays an error and leaves the table in use, like the session, as it
\* was.
C18_LoadRejectsMissingColumns ==
    [][ \A df \in AllTables :
            (LoadData(df) /\ ~({"coding_id", "quotation"} \subseteq df.columns)) =>
                /\ LoadDataMessages(df).error # ""
                /\ coding_df' = coding_df
                /\ Session' = Session
      ]_vars

\* C19: with records present and a loaded table that has coding_id, the
\* export is built, and its columns are those of OUTPUT_COLUMNS that the
\* records or the table have, in the order of OUTPUT_COLUMNS.
C19_ExportOmitsMissingColumns ==
    (results # <<>> /\ "coding_id" \in coding_df.columns) =>
        /\ Export.ok
        /\ Export.columns
              = FilterSeq(OUTPUT_COLUMNS,
                          ResultColumns \cup (MergeColumns \cap coding_df.columns))

\* C20: whenever the export is built and Load Session can be pressed, a run
\* on the exported file, read back, leaves records with the coding_id,
\* coder_name and classification of the records of before, in their order,
\* and the coded ids of before.
C20_RoundTripRestores ==
    (LoadSessionRuns /\ Export.ok) =>
        LET after == LoadSessionOutcome(read_csv(to_csv(Export)))
        IN  /\ Len(after.results) = Len(results)
            /\ \A i \in 1..Len(results) :
                  /\ after.results[i].coding_id = results[i].coding_id
                  /\ after.results[i].coder_name = results[i].coder_name
                  /\ after.results[i].classification = results[i].classification
            /\ after.coded_ids = coded_ids

\* C21: the coded ids are exactly the coding_ids of the records: no id is
\* coded without a record, and no record's coding_id is missing from them.
C21_CodedIdsAreRecordIds ==
    coded_ids = {results[i].coding_id : i \in 1..Len(results)}

\* C21 witness: a record written by Save beside imported records, two of
\* the records carrying the same coding_id.
C21_Witness ==
    /\ \E i \in 1..Len(results) : WrittenBySave(results[i])
    /\ \E i \in 1..Len(results) : ~WrittenBySave(results[i])
    /\ Cardinality(coded_ids) > 1
    /\ Cardinality(coded_ids) < Len(results)

\* C22: a Previous, Skip, Go or Return to Start step leaves the records,
\* the coded ids and the locked name as they were (and the loaded table).
C22_NavigationKeepsLabels ==
    [][ (Previous \/ Skip \/ (\E j \in 1..MaxItems : Go(j)) \/ ReturnToStart) =>
            UNCHANGED <<results, coded_ids, locked_coder_name, coding_df>>
      ]_vars

\* C22 witness: records written by Save only, a name locked, and the cursor
\* back on the first row, which has no record: a Save leaves the cursor
\* behind the row it coded, so navigation has brought it there.
C22_Witness ==
    /\ results # <<>>
    /\ \A i \in 1..Len(results) : WrittenBySave(results[i])
    /\ locked_coder_name # None
    /\ current_index = 0
    /\ coding_df.ids[1] \notin coded_ids

====
